---- MODULE Spec2Model ----
(***************************************************************************)
(* Model of the two strategy functions of src/app.py, backtest_stock and   *)
(* backtest_futures.  One behaviour is one call: Init draws the arguments  *)
(* (price series and parameters), every step is one iteration of the       *)
(* "for date, price in prices.items()" loop, and the last step is the      *)
(* return statement that builds the DataFrame and the Series.              *)
(*                                                                         *)
(* Arithmetic: the code computes in IEEE doubles; the model computes in    *)
(* exact rationals <<n, d>> (d > 0, lowest terms), so a comparison that    *)
(* sits exactly on a threshold is decided mathematically.                  *)
(***************************************************************************)
EXTENDS Integers, Sequences, FiniteSets, TLC

\* Longest price series a run is given.
MaxBars == 4

----------------------------------------------------------------------------
\* Exact rational arithmetic (the code's float arithmetic, without rounding error)

Abs(x) == IF x < 0 THEN -x ELSE x

RECURSIVE GCD(_, _)
GCD(a, b) == IF b = 0 THEN a ELSE GCD(b, a % b)

\* n / d for d > 0, in lowest terms
Frac(n, d) == LET g == GCD(Abs(n), d) IN <<n \div g, d \div g>>

Zero == <<0, 1>>
FromInt(k) == <<k, 1>>
\* (common factors are divided out before multiplying, to keep the
\* intermediate integers small)
RAdd(a, b) ==
    LET g == GCD(a[2], b[2])
    IN Frac(a[1] * (b[2] \div g) + b[1] * (a[2] \div g), (a[2] \div g) * b[2])
RSub(a, b) == RAdd(a, <<-b[1], b[2]>>)
RMul(a, b) ==
    LET g1 == GCD(Abs(a[1]), b[2])
        g2 == GCD(Abs(b[1]), a[2])
    IN Frac((a[1] \div g1) * (b[1] \div g2), (a[2] \div g2) * (b[2] \div g1))
\* a / b for b > 0
RDiv(a, b) == RMul(a, <<b[2], b[1]>>)
RLeq(a, b) ==
    LET g == GCD(a[2], b[2])
    IN a[1] * (b[2] \div g) <= b[1] * (a[2] \div g)
RLt(a, b) == ~RLeq(b, a)
RPos(a) == a[1] > 0

RECURSIVE Pow10(_)
Pow10(k) == IF k = 0 THEN 1 ELSE 10 * Pow10(k - 1)

\* Python's round(x, ndigits): nearest multiple of 10^-ndigits, ties to even
Round(x, ndigits) ==
    LET scale == Pow10(ndigits)
        whole == x[1] \div x[2]
        part == (x[1] - whole * x[2]) * scale
        q == whole * scale + part \div x[2]
        rem == part % x[2]
        up == \/ 2 * rem > x[2]
              \/ (2 * rem = x[2] /\ q % 2 = 1)
    IN Frac(IF up THEN q + 1 ELSE q, scale)

----------------------------------------------------------------------------
\* Inputs

\* A bar's price is a number or missing (NaN).  val of NaN is only there to
\* give the record its shape: it is positive because "NaN <= 0" is False
NaN == [nan |-> TRUE, val |-> 1]
Num(v) == [nan |-> FALSE, val |-> v]
PriceValues == {NaN, Num(0), Num(95), Num(100), Num(105)}

\* prices.index: the timestamp of the k-th bar; strictly increasing
Date(k) == k

\* last_buy_price is None or a price
None == <<>>
Some(p) == <<p>>

\* Parameter values a caller can pass; 0 and -5 stand for the values the
\* specification calls invalid, the others are valid
InitialValues == {0, 1000}
AddValues == {0, 500}
InitialLotsValues == {0, 1}
DropValues == {0, 5}
ProfitValues == {-5, 0, 5}
LotValues == {1, 2}

VARIABLES mode, prices,
          initial_inr, add_inr, drop_pct, profit_pct,
          initial_lots, add_lot_every_drop, lot_value,
          i, pc,
          trades, equity, realized_pnl,
          position_cost, position_shares,
          total_cost, lots,
          last_buy_price, in_position

params == <<mode, prices, initial_inr, add_inr, drop_pct, profit_pct,
            initial_lots, add_lot_every_drop, lot_value>>
stock_position == <<position_cost, position_shares>>
futures_position == <<total_cost, lots>>
vars == <<mode, prices, initial_inr, add_inr, drop_pct, profit_pct,
          initial_lots, add_lot_every_drop, lot_value, i, pc,
          trades, equity, realized_pnl, position_cost, position_shares,
          total_cost, lots, last_buy_price, in_position>>

\* The configuration the specification accepts
ValidConfig ==
    IF mode = "stock"
    THEN /\ initial_inr > 0 /\ add_inr > 0
         /\ drop_pct > 0 /\ drop_pct <= 100
         /\ profit_pct > 0 /\ profit_pct <= 100
    ELSE /\ initial_lots > 0 /\ lot_value > 0
         /\ add_lot_every_drop > 0 /\ add_lot_every_drop <= 100
         /\ profit_pct > 0 /\ profit_pct <= 100

\* The locals of both functions before the loop
Locals ==
    /\ i = 1
    /\ pc = "loop"
    /\ trades = <<>>
    /\ equity = <<>>
    /\ realized_pnl = Zero
    /\ position_cost = 0
    /\ position_shares = Zero
    /\ total_cost = 0
    /\ lots = 0
    /\ last_buy_price = None
    /\ in_position = FALSE

PriceSeries == UNION {[1..n -> PriceValues] : n \in 0..MaxBars}

StockCall ==
    /\ mode = "stock"
    /\ initial_inr \in InitialValues
    /\ add_inr \in AddValues
    /\ drop_pct \in DropValues
    /\ profit_pct \in ProfitValues
    /\ initial_lots = 1
    /\ add_lot_every_drop = 2
    /\ lot_value = 1

FuturesCall ==
    /\ mode = "futures"
    /\ initial_lots \in InitialLotsValues
    /\ add_lot_every_drop \in DropValues
    /\ profit_pct \in ProfitValues
    /\ lot_value \in LotValues
    /\ initial_inr = 10000
    /\ add_inr = 10000
    /\ drop_pct = 2

Init ==
    /\ prices \in PriceSeries
    /\ StockCall \/ FuturesCall
    /\ Locals

----------------------------------------------------------------------------
\* Pieces of the loop body shared by both functions

\* Variant: the test leaves out pd.isna
IsInvalidNoIsna(bar) == bar.val <= 0

\* "if pd.isna(price) or price <= 0"
IsInvalid(bar) == bar.nan \/ bar.val <= 0

\* Variant: a skipped bar carries the previous equity value forward
SkipEquityCarry(eq) == Append(eq, IF eq = <<>> THEN Zero ELSE eq[Len(eq)])

\* What "continue" leaves in equity for a skipped bar: nothing is appended
SkipEquity(eq) == eq

\* Variant: the drawdown taken relative to the current price
DropFromPrice(last, price) == Frac((last - price) * 100, price)

\* Variant: the difference is taken the other way round
DropRise(last, price) == Frac((price - last) * 100, last)

\* "drop = ((last_buy_price - price) / last_buy_price) * 100"
Drop(last, price) == Frac((last - price) * 100, last)

\* Variant: the add test is strict
DropHitStrict(last, price, pct) == RLt(FromInt(pct), Drop(last, price))

\* "if drop >= drop_pct"
DropHit(last, price, pct) == RLeq(FromInt(pct), Drop(last, price))

\* Variant: the sell test compares the price with the average alone
ProfitHitNoMargin(price, avg_price, pct) == RLeq(avg_price, FromInt(price))

\* "if price >= avg_price * (1 + profit_pct / 100)"
ProfitHit(price, avg_price, pct) ==
    RLeq(RMul(avg_price, Frac(100 + pct, 100)), FromInt(price))

\* Variant: the average of the sell test is taken before the bar's add
ProfitCheckStateStale(before, after) ==
    IF RPos(before[2]) THEN before ELSE after

\* The sell test comes after the add block, so the <<cost, size>> it
\* averages is the one the add has already updated
ProfitCheckState(before, after) == after

\* Variant: the add leaves the lot count as it is
AddLotNone(l) == l

\* "lots += 1"
AddLot(l) == l + 1

\* Variant: a sale overwrites the running realized P/L
RealizeReset(realized, pnl) == pnl

\* "realized_pnl += pnl"
Realize(realized, pnl) == RAdd(realized, pnl)

\* "unrealized = <size> * price if in_position else 0"
Unrealized(inpos, value) == IF inpos THEN value ELSE Zero

\* Variant: the equity value leaves out the realized P/L
EquityUnrealizedOnly(realized, unrealized) == unrealized

\* "equity.append(realized_pnl + unrealized)"
EquityValue(realized, unrealized) == RAdd(realized, unrealized)

\* Variant: the sale leaves the position flag set
SoldInPositionStuck == TRUE

\* in_position after SELL_ALL
SoldInPosition == FALSE

\* last_buy_price after a buy at price
BoughtLastPrice(price) == Some(price)

----------------------------------------------------------------------------
\* backtest_stock

StockSkipBar ==
    /\ mode = "stock" /\ pc = "loop" /\ i <= Len(prices)
    /\ IsInvalid(prices[i])
    /\ equity' = SkipEquity(equity)
    /\ i' = i + 1
    /\ UNCHANGED <<params, pc, trades, realized_pnl, stock_position,
                   futures_position, last_buy_price, in_position>>

StockBuyInit ==
    /\ mode = "stock" /\ pc = "loop" /\ i <= Len(prices)
    /\ ~IsInvalid(prices[i])
    /\ ~in_position
    /\ LET date == Date(i)
           price == prices[i].val
           shares == Frac(initial_inr, price)
       IN /\ position_shares' = shares
          /\ position_cost' = initial_inr
          /\ last_buy_price' = BoughtLastPrice(price)
          /\ in_position' = TRUE
          /\ trades' = Append(trades,
                 [date |-> date, action |-> "BUY_INIT",
                  price |-> Round(FromInt(price), 2),
                  shares |-> Round(shares, 4),
                  cost |-> initial_inr])
          /\ equity' = Append(equity,
                 EquityValue(realized_pnl,
                      Unrealized(in_position',
                                 RMul(position_shares', FromInt(price)))))
    /\ i' = i + 1
    /\ UNCHANGED <<params, pc, realized_pnl, futures_position>>

StockHeldBar ==
    /\ mode = "stock" /\ pc = "loop" /\ i <= Len(prices)
    /\ ~IsInvalid(prices[i])
    /\ in_position
    /\ LET date == Date(i)
           price == prices[i].val
           add == DropHit(last_buy_price[1], price, drop_pct)
           add_shares == Frac(add_inr, price)
           shares1 == IF add THEN RAdd(position_shares, add_shares)
                             ELSE position_shares
           cost1 == IF add THEN position_cost + add_inr ELSE position_cost
           last1 == IF add THEN BoughtLastPrice(price) ELSE last_buy_price
           trades1 == IF add
                      THEN Append(trades,
                             [date |-> date, action |-> "BUY_ADD",
                              price |-> Round(FromInt(price), 2),
                              shares |-> Round(add_shares, 4),
                              cost |-> add_inr])
                      ELSE trades
           basis == ProfitCheckState(<<FromInt(position_cost), position_shares>>,
                                     <<FromInt(cost1), shares1>>)
           avg_price == RDiv(basis[1], basis[2])
           sell == RPos(shares1) /\ ProfitHit(price, avg_price, profit_pct)
           proceeds == RMul(FromInt(price), shares1)
           pnl == RSub(proceeds, FromInt(cost1))
       IN /\ IF sell
             THEN /\ realized_pnl' = Realize(realized_pnl, pnl)
                  /\ trades' = Append(trades1,
                       [date |-> date, action |-> "SELL_ALL",
                        price |-> Round(FromInt(price), 2),
                        shares |-> Round(shares1, 4),
                        pnl |-> Round(pnl, 2)])
                  /\ in_position' = SoldInPosition
                  /\ position_cost' = 0
                  /\ position_shares' = Zero
                  /\ last_buy_price' = None
             ELSE /\ realized_pnl' = realized_pnl
                  /\ trades' = trades1
                  /\ in_position' = in_position
                  /\ position_cost' = cost1
                  /\ position_shares' = shares1
                  /\ last_buy_price' = last1
          /\ equity' = Append(equity,
                 EquityValue(realized_pnl',
                      Unrealized(in_position',
                                 RMul(position_shares', FromInt(price)))))
    /\ i' = i + 1
    /\ UNCHANGED <<params, pc, futures_position>>

----------------------------------------------------------------------------
\* backtest_futures

FuturesSkipBar ==
    /\ mode = "futures" /\ pc = "loop" /\ i <= Len(prices)
    /\ IsInvalid(prices[i])
    /\ equity' = SkipEquity(equity)
    /\ i' = i + 1
    /\ UNCHANGED <<params, pc, trades, realized_pnl, stock_position,
                   futures_position, last_buy_price, in_position>>

FuturesBuyInit ==
    /\ mode = "futures" /\ pc = "loop" /\ i <= Len(prices)
    /\ ~IsInvalid(prices[i])
    /\ ~in_position
    /\ LET date == Date(i)
           price == prices[i].val
       IN /\ lots' = initial_lots
          /\ total_cost' = lots' * price * lot_value
          /\ last_buy_price' = BoughtLastPrice(price)
          /\ in_position' = TRUE
          /\ trades' = Append(trades,
                 [date |-> date, action |-> "BUY_INIT",
                  price |-> Round(FromInt(price), 2),
                  lots |-> lots',
                  cost |-> Round(FromInt(total_cost'), 2)])
          /\ equity' = Append(equity,
                 EquityValue(realized_pnl,
                      Unrealized(in_position',
                                 FromInt(lots' * price * lot_value))))
    /\ i' = i + 1
    /\ UNCHANGED <<params, pc, realized_pnl, stock_position>>

FuturesHeldBar ==
    /\ mode = "futures" /\ pc = "loop" /\ i <= Len(prices)
    /\ ~IsInvalid(prices[i])
    /\ in_position
    /\ LET date == Date(i)
           price == prices[i].val
           add == DropHit(last_buy_price[1], price, add_lot_every_drop)
           lots1 == IF add THEN AddLot(lots) ELSE lots
           additional_cost == price * lot_value
           cost1 == IF add THEN total_cost + additional_cost ELSE total_cost
           last1 == IF add THEN BoughtLastPrice(price) ELSE last_buy_price
           trades1 == IF add
                      THEN Append(trades,
                             [date |-> date, action |-> "BUY_ADD",
                              price |-> Round(FromInt(price), 2),
                              lots |-> lots1,
                              cost |-> Round(FromInt(additional_cost), 2)])
                      ELSE trades
           basis == ProfitCheckState(<<FromInt(total_cost), FromInt(lots)>>,
                                     <<FromInt(cost1), FromInt(lots1)>>)
           avg_price == RDiv(basis[1], RMul(basis[2], FromInt(lot_value)))
           sell == lots1 > 0 /\ ProfitHit(price, avg_price, profit_pct)
           proceeds == lots1 * price * lot_value
           pnl == proceeds - cost1
       IN /\ IF sell
             THEN /\ realized_pnl' = Realize(realized_pnl, FromInt(pnl))
                  /\ trades' = Append(trades1,
                       [date |-> date, action |-> "SELL_ALL",
                        price |-> Round(FromInt(price), 2),
                        lots |-> lots1,
                        pnl |-> Round(FromInt(pnl), 2)])
                  /\ lots' = 0
                  /\ total_cost' = 0
                  /\ in_position' = SoldInPosition
                  /\ last_buy_price' = None
             ELSE /\ realized_pnl' = realized_pnl
                  /\ trades' = trades1
                  /\ lots' = lots1
                  /\ total_cost' = cost1
                  /\ in_position' = in_position
                  /\ last_buy_price' = last1
          /\ equity' = Append(equity,
                 EquityValue(realized_pnl',
                      Unrealized(in_position',
                                 FromInt(lots' * price * lot_value))))
    /\ i' = i + 1
    /\ UNCHANGED <<params, pc, stock_position>>

\* "return pd.DataFrame(trades), pd.Series(equity, index=prices.index)":
\* the Series constructor raises ValueError when equity and the index differ
\* in length
Return ==
    /\ pc = "loop" /\ i > Len(prices)
    /\ pc' = IF Len(equity) = Len(prices) THEN "done" ELSE "error"
    /\ UNCHANGED <<params, i, trades, equity, realized_pnl, stock_position,
                   futures_position, last_buy_price, in_position>>

Next ==
    \/ StockSkipBar
    \/ StockBuyInit
    \/ StockHeldBar
    \/ FuturesSkipBar
    \/ FuturesBuyInit
    \/ FuturesHeldBar
    \/ Return

Spec == Init /\ [][Next]_vars

\* Runs restricted to the configurations the specification accepts
InitValid == Init /\ ValidConfig
SpecValid == InitValid /\ [][Next]_vars

----------------------------------------------------------------------------
\* Vocabulary of the properties

Actions == {"BUY_INIT", "BUY_ADD", "SELL_ALL"}
IsBuy(t) == t.action \in {"BUY_INIT", "BUY_ADD"}

\* sizeHeld, costBasis and dropPct of whichever engine is running
SizeHeld == IF mode = "stock" THEN position_shares ELSE FromInt(lots)
CostBasis == IF mode = "stock" THEN position_cost ELSE total_cost
DropPct == IF mode = "stock" THEN drop_pct ELSE add_lot_every_drop

\* Bars the loop has gone through so far, and those among them it skipped
Processed == 1..(i - 1)
Skipped == {k \in Processed : IsInvalid(prices[k])}
AllInvalid == \A k \in 1..Len(prices) : IsInvalid(prices[k])

\* The index pd.Series gives the returned equity values
EquityIndex == [k \in 1..Len(equity) |-> Date(k)]

\* The k-th bar of the series that is not skipped
NthValid(k) ==
    CHOOSE j \in 1..Len(prices) :
        /\ ~IsInvalid(prices[j])
        /\ Cardinality({m \in 1..j : ~IsInvalid(prices[m])}) = k

LastTrade == trades[Len(trades)]

----------------------------------------------------------------------------
\* C1: after every processed bar, inPosition holds exactly when sizeHeld > 0,
\* costBasis is 0 whenever sizeHeld is 0, and lastEntryPrice is defined
\* exactly when inPosition holds.
PositionInvariant ==
    /\ in_position <=> RPos(SizeHeld)
    /\ SizeHeld = Zero => CostBasis = 0
    /\ last_buy_price # None <=> in_position

\* The same for the configurations the specification accepts (SpecValid)
PositionInvariantValid == ValidConfig => PositionInvariant

\* C2: an invalid configuration is rejected before any bar is processed: it
\* produces no trade and no equity point.
InvalidConfigRejected ==
    ~ValidConfig => /\ trades = <<>>
                    /\ equity = <<>>

\* C3: a run over an empty or all-invalid price series returns an empty
\* ledger and an empty equity sequence and never ends in an error.
AllInvalidReturnsEmpty ==
    AllInvalid => /\ pc # "error"
                  /\ trades = <<>>
                  /\ equity = <<>>

\* C4: with a valid configuration a run never ends in an error, whatever
\* bars of the series are missing or non-positive.
ValidRunNeverErrors == ValidConfig => pc # "error"

\* C5: the equity sequence has one entry per input bar, skipped bars
\* included, so that it ends with the length of the price series.
EquityPerInputBar == Len(equity) = i - 1

EquityAsOfBar ==
    [][/\ SubSeq(equity', 1, Len(equity)) = equity
       /\ Len(equity') = Len(equity) + 1 =>
            LET price == prices[i].val
                held == IF mode = "stock"
                        THEN RMul(position_shares', FromInt(price))
                        ELSE FromInt(lots' * price * lot_value)
            IN equity'[Len(equity')] =
                 RAdd(realized_pnl', IF in_position' THEN held ELSE Zero)]_vars

\* C7 witness: an equity point with both a realized and an unrealized part
EquityMixed ==
    /\ RPos(realized_pnl)
    /\ in_position
    /\ Len(equity) >= 4
    /\ RLt(realized_pnl, equity[Len(equity)])

\* C8: the ledger is a sequence of lifetimes BUY_INIT, BUY_ADD*, SELL_ALL
\* (the last may be open): a record is BUY_INIT exactly when it is first or
\* follows a SELL_ALL, a position is open exactly when the ledger ends in a
\* buy, and right after a SELL_ALL nothing is held.
LedgerLifetimes ==
    /\ \A k \in 1..Len(trades) :
          (trades[k].action = "BUY_INIT")
             <=> (k = 1 \/ trades[k - 1].action = "SELL_ALL")
    /\ in_position <=> (trades # <<>> /\ IsBuy(LastTrade))
    /\ (trades # <<>> /\ LastTrade.action = "SELL_ALL") =>
          /\ SizeHeld = Zero
          /\ CostBasis = 0
          /\ ~in_position

\* C8 witness: a lifetime with an add was sold and a new one opened
SecondLifetime ==
    /\ Len(trades) >= 4
    /\ trades[2].action = "BUY_ADD"
    /\ trades[3].action = "SELL_ALL"
    /\ trades[4].action = "BUY_INIT"

\* C9: the ledger is strictly ordered by timestamp and every action is one
\* of the three kinds.
LedgerStrictlyOrdered ==
    /\ \A k \in 1..Len(trades) : trades[k].action \in Actions
    /\ \A k, l \in 1..Len(trades) :
          k < l => trades[k].date < trades[l].date

\* The same for the configurations the specification accepts (SpecValid)
LedgerStrictlyOrderedValid == ValidConfig => LedgerStrictlyOrdered

\* C10: every BUY_ADD at price p directly follows a buy of the same lifetime
\* at price e with (e - p) / e * 100 >= dropPct; a bar emits at most one
\* BUY_ADD, and while that add is the latest trade lastEntryPrice is p.
MonotonicAdd ==
    /\ \A k \in 1..Len(trades) :
          trades[k].action = "BUY_ADD" =>
             /\ k > 1
             /\ IsBuy(trades[k - 1])
             /\ LET e == trades[k - 1].price
                    p == trades[k].price
                IN RLeq(FromInt(DropPct),
                        RMul(RDiv(RSub(e, p), e), FromInt(100)))
    /\ \A k, l \in 1..Len(trades) :
          (k < l /\ trades[k].action = "BUY_ADD"
                 /\ trades[l].action = "BUY_ADD")
             => trades[k].date # trades[l].date
    /\ (trades # <<>> /\ LastTrade.action = "BUY_ADD") =>
          /\ last_buy_price # None
          /\ FromInt(last_buy_price[1]) = LastTrade.price

\* C10 witness: an add after a real drawdown from the previous buy
AddAfterDrawdown ==
    /\ DropPct > 0
    /\ trades # <<>>
    /\ LastTrade.action = "BUY_ADD"
    /\ LastTrade.price = FromInt(95)
----------------------------------------------------------------------------
\* Vocabulary of the per-bar properties: the step is the loop iteration for
\* bar i, taken with a position open

HeldBarStep ==
    /\ pc = "loop" /\ i <= Len(prices)
    /\ ~prices[i].nan /\ prices[i].val > 0
    /\ in_position

\* The records the step appends
NewTrades == SubSeq(trades', Len(trades) + 1, Len(trades'))
Added == \E k \in 1..Len(NewTrades) : NewTrades[k].action = "BUY_ADD"
Sold == \E k \in 1..Len(NewTrades) : NewTrades[k].action = "SELL_ALL"

\* Size and cost of one add at the bar's price, and the currency value of
\* one unit of size per unit of price
AddSize == IF mode = "stock" THEN Frac(add_inr, prices[i].val) ELSE FromInt(1)
AddCost == IF mode = "stock" THEN add_inr ELSE prices[i].val * lot_value
UnitValue == IF mode = "stock" THEN 1 ELSE lot_value

\* price >= (cost / size) * (1 + profitPct / 100), for size > 0
TargetMet(cost, size) ==
    RLeq(FromInt(cost * (100 + profit_pct)),
         RMul(size, FromInt(UnitValue * prices[i].val * 100)))

\* C11: on a bar with an open position an add is made exactly when the
\* drawdown from lastEntryPrice is >= dropPct, and the position held after
\* it is sold exactly when the price is >= averagePrice * (1 + profitPct/100);
\* equality triggers both, anything below triggers neither.
InclusiveThresholds ==
    [][HeldBarStep =>
         LET last == last_buy_price[1]
             price == prices[i].val
             size1 == IF Added THEN RAdd(SizeHeld, AddSize) ELSE SizeHeld
             cost1 == IF Added THEN CostBasis + AddCost ELSE CostBasis
         IN /\ Added <=> (last - price) * 100 >= DropPct * last
            /\ RPos(size1) => (Sold <=> TargetMet(cost1, size1))]_vars

\* C11 witness: a sale exactly on the target (105 = 100 * 1.05) and then an
\* add exactly on the threshold (drawdown from 100 to 95 is 5)
ExactThresholds ==
    /\ DropPct = 5 /\ profit_pct = 5
    /\ Len(trades) = 4
    /\ trades[1].action = "BUY_INIT" /\ trades[1].price = FromInt(100)
    /\ trades[2].action = "SELL_ALL" /\ trades[2].price = FromInt(105)
    /\ trades[3].action = "BUY_INIT" /\ trades[3].price = FromInt(100)
    /\ trades[4].action = "BUY_ADD" /\ trades[4].price = FromInt(95)
----------------------------------------------------------------------------
\* Runs with the default parameters of both signatures (src/app.py:23, 88)
\* over series of the prices of the stock scenario

\* Longest price series of a scenario run
ScenarioBars == 5

ScenarioPriceValues == {NaN, Num(97), Num(100), Num(102)}
ScenarioPrices == <<Num(100), Num(100), Num(97), Num(97), Num(102)>>

DefaultStockCall ==
    /\ mode = "stock"
    /\ initial_inr = 10000
    /\ add_inr = 10000
    /\ drop_pct = 2
    /\ profit_pct = 5
    /\ initial_lots = 1
    /\ add_lot_every_drop = 2
    /\ lot_value = 1

DefaultFuturesCall ==
    /\ mode = "futures"
    /\ initial_lots = 1
    /\ add_lot_every_drop = 2
    /\ profit_pct = 5
    /\ lot_value = 1
    /\ initial_inr = 10000
    /\ add_inr = 10000
    /\ drop_pct = 2

InitScenario ==
    /\ prices \in UNION {[1..n -> ScenarioPriceValues] : n \in 0..ScenarioBars}
    /\ DefaultStockCall \/ DefaultFuturesCall
    /\ Locals

SpecScenario == InitScenario /\ [][Next]_vars

\* The stock scenario has run to its return
ScenarioDone == mode = "stock" /\ prices = ScenarioPrices /\ pc = "done"

\* The ledger the scenario expects: BUY_INIT of 100 shares at 100 on the
\* first bar, BUY_ADD of 103.0928 shares at 97 on the third, no SELL_ALL
ScenarioLedger ==
    << [date |-> Date(1), action |-> "BUY_INIT", price |-> FromInt(100),
        shares |-> FromInt(100), cost |-> 10000],
       [date |-> Date(3), action |-> "BUY_ADD", price |-> FromInt(97),
        shares |-> Frac(1030928, 10000), cost |-> 10000] >>

\* Average entry price and sell target of the open stock position
AveragePrice == RDiv(FromInt(position_cost), position_shares)
SellTarget == RMul(AveragePrice, Frac(100 + profit_pct, 100))

\* C13 as stated: the scenario's ledger, with average price 98.56, sell
\* target 103.49 and final equity 20,722.68 (to the cent).
ScenarioAsStated ==
    ScenarioDone =>
        /\ trades = ScenarioLedger
        /\ Round(AveragePrice, 2) = Frac(9856, 100)
        /\ Round(SellTarget, 2) = Frac(10349, 100)
        /\ realized_pnl = Zero
        /\ Round(equity[5], 2) = Frac(2072268, 100)

\* C13 as amended: the scenario's ledger, with average price 98.48, sell
\* target 103.40 and final equity 20,715.46 (to the cent), all unrealized.
ScenarioAsComputed ==
    ScenarioDone =>
        /\ trades = ScenarioLedger
        /\ Round(AveragePrice, 2) = Frac(9848, 100)
        /\ Round(SellTarget, 2) = Frac(10340, 100)
        /\ realized_pnl = Zero
        /\ Round(equity[5], 2) = Frac(2071546, 100)
        /\ equity[5] = RMul(position_shares, FromInt(102))
----------------------------------------------------------------------------
\* C14: a single bar can both add and sell: whenever a bar emits a BUY_ADD
\* and a SELL_ALL they are that bar's only records, in that order, the
\* drawdown was >= dropPct and the price meets the profit target computed
\* from the average after the add.
SameBarAddThenSell ==
    [][(HeldBarStep /\ Added /\ Sold) =>
         LET last == last_buy_price[1]
             price == prices[i].val
         IN /\ Len(NewTrades) = 2
            /\ NewTrades[1].action = "BUY_ADD"
            /\ NewTrades[2].action = "SELL_ALL"
            /\ NewTrades[1].date = Date(i) /\ NewTrades[2].date = Date(i)
            /\ (last - price) * 100 >= DropPct * last
            /\ TargetMet(CostBasis + AddCost, RAdd(SizeHeld, AddSize))]_vars

\* C14 witness: the ledger ends with a BUY_ADD and a SELL_ALL of one bar
SameBarAddSell ==
    /\ Len(trades) >= 3
    /\ trades[Len(trades) - 1].action = "BUY_ADD"
    /\ LastTrade.action = "SELL_ALL"
    /\ trades[Len(trades) - 1].date = LastTrade.date

\* With a configuration the specification accepts no bar adds and sells
\* (SpecValid)
NoSameBarAddSellValid == ValidConfig => ~SameBarAddSell
----------------------------------------------------------------------------
\* C15: on a bar that adds, the sell decision comes after the add and uses
\* the average costBasis / sizeHeld of the state the add has produced: the
\* position is sold exactly when the price meets the target of the post-add
\* average, the sale liquidates the post-add position, and no bar records a
\* SELL_ALL before a BUY_ADD.
AddBeforeSell ==
    /\ [][(HeldBarStep /\ Added) =>
            LET price == prices[i].val
                size1 == RAdd(SizeHeld, AddSize)
                cost1 == CostBasis + AddCost
            IN /\ Sold <=> (RPos(size1) /\ TargetMet(cost1, size1))
               /\ Sold =>
                    /\ NewTrades[1].action = "BUY_ADD"
                    /\ RSub(realized_pnl', realized_pnl) =
                         RSub(RMul(size1, FromInt(UnitValue * price)),
                              FromInt(cost1))]_vars
    /\ [](\A k, l \in 1..Len(trades) :
            (k < l /\ trades[k].date = trades[l].date)
               => ~(trades[k].action = "SELL_ALL"
                    /\ trades[l].action = "BUY_ADD"))

\* C15 witness: one lot bought at 105, a second added at 95 and both sold on
\* that bar at a target of 95 %: the post-add average 100 gives the target
\* 95, the pre-add average 105 would have given 99.75
SoldOnPostAddAverage ==
    /\ mode = "futures" /\ initial_lots = 1 /\ profit_pct = -5
    /\ Len(trades) = 3
    /\ trades[1].action = "BUY_INIT" /\ trades[1].price = FromInt(105)
    /\ trades[2].action = "BUY_ADD" /\ trades[2].price = FromInt(95)
    /\ trades[3].action = "SELL_ALL" /\ trades[3].date = trades[2].date
----------------------------------------------------------------------------
\* C16: a bar with a missing or non-positive price changes nothing in the
\* trading state and appends no trade record.
SkippedBarNoEffect ==
    [][(pc = "loop" /\ i <= Len(prices)
          /\ (prices[i].nan \/ prices[i].val <= 0)) =>
         /\ in_position' = in_position
         /\ position_cost' = position_cost
         /\ position_shares' = position_shares
         /\ total_cost' = total_cost
         /\ lots' = lots
         /\ last_buy_price' = last_buy_price
         /\ realized_pnl' = realized_pnl
         /\ trades' = trades]_vars

\* C16 witness: a missing and a non-positive bar were skipped with a
\* position open
SkippedWhileOpen ==
    /\ in_position
    /\ \E k, l \in Skipped :
          /\ prices[k].nan
          /\ ~prices[l].nan
          /\ \E t \in 1..Len(trades) : trades[t].date < Date(k)
                                       /\ trades[t].date < Date(l)
----------------------------------------------------------------------------
\* Sum of the pnl fields of the SELL_ALL records of a ledger, and their number
RECURSIVE SumPnl(_)
SumPnl(tr) ==
    IF tr = <<>> THEN Zero
    ELSE LET rest == SumPnl(SubSeq(tr, 1, Len(tr) - 1))
             t == tr[Len(tr)]
         IN IF t.action = "SELL_ALL" THEN RAdd(rest, t.pnl) ELSE rest

NumSells == Cardinality({k \in 1..Len(trades) : trades[k].action = "SELL_ALL"})

RAbs(a) == <<Abs(a[1]), a[2]>>

\* C17: a SELL_ALL liquidates the whole position at the bar's price with
\* pnl = sizeHeld * price - costBasis (times lotValue for futures), recorded
\* to the cent; realizedPnL grows by that pnl on a SELL_ALL, changes on no
\* other bar and is never reset, so it is the sum of the pnl of the sales so
\* far (the sum of the recorded pnl up to half a cent per sale).
SellAccounting ==
    /\ [][(pc = "loop" /\ i <= Len(prices)) =>
            IF Sold
            THEN LET price == prices[i].val
                     size1 == IF Added THEN RAdd(SizeHeld, AddSize)
                                       ELSE SizeHeld
                     cost1 == IF Added THEN CostBasis + AddCost ELSE CostBasis
                     pnl == RSub(RMul(size1, FromInt(UnitValue * price)),
                                 FromInt(cost1))
                     sale == trades'[Len(trades')]
                 IN /\ HeldBarStep
                    /\ realized_pnl' = RAdd(realized_pnl, pnl)
                    /\ sale.action = "SELL_ALL"
                    /\ sale.price = FromInt(price)
                    /\ sale.pnl = Round(pnl, 2)
                    /\ IF mode = "stock" THEN sale.shares = Round(size1, 4)
                                         ELSE FromInt(sale.lots) = size1
            ELSE realized_pnl' = realized_pnl]_vars
    /\ [](/\ RLeq(RAbs(RSub(realized_pnl, SumPnl(trades))),
                  Frac(NumSells, 200))
          /\ mode = "futures" => realized_pnl = SumPnl(trades))

\* C17 witness: two position cycles sold at a profit in one run
TwoSales ==
    /\ NumSells >= 2
    /\ LastTrade.action = "SELL_ALL"
    /\ RPos(LastTrade.pnl)
    /\ RLt(LastTrade.pnl, realized_pnl)
----------------------------------------------------------------------------
----------------------------------------------------------------------------
\* profitPct > 0 and positive amounts / lots / lotValue (dropPct is free)
ProfitConfig ==
    /\ profit_pct > 0
    /\ IF mode = "stock" THEN initial_inr > 0 /\ add_inr > 0
                          ELSE initial_lots > 0 /\ lot_value > 0

\* C19: with profitPct > 0 and positive amounts / lots / lotValue (so with
\* every valid configuration) every SELL_ALL has pnl > 0, realizedPnL never
\* decreases, and every equity value is >= 0.
ProfitableSales ==
    /\ [][ProfitConfig =>
            /\ RLeq(realized_pnl, realized_pnl')
            /\ (pc = "loop" /\ Sold) => RLt(realized_pnl, realized_pnl')]_vars
    /\ [](ProfitConfig =>
            /\ RLeq(Zero, realized_pnl)
            /\ \A k \in 1..Len(equity) : RLeq(Zero, equity[k]))

\* C19 witness: a valid run has sold, re-opened and holds a position
ValidRunSold ==
    /\ ValidConfig
    /\ NumSells >= 1
    /\ RPos(realized_pnl)
    /\ in_position

\* Without the restriction to valid configurations a sale can lose money
ProfitableSalesAnyConfig == RLeq(Zero, realized_pnl)
----------------------------------------------------------------------------
====
